---- MODULE Spec2Model ----
(***************************************************************************)
(* Model of src/Collapse.js: the Collapse component, which animates one    *)
(* CSS dimension of an element by writing the element's inline style from  *)
(* five phase callbacks that a Transition delegate invokes.                *)
(*                                                                         *)
(* JavaScript strings that the code builds or parses are sequences of      *)
(* one-character strings; property names and enumerated values are TLA+    *)
(* strings.  A JavaScript number is a record that is either NaN or an      *)
(* integer.                                                                *)
(***************************************************************************)
EXTENDS Integers, Sequences, FiniteSets

VARIABLES
    given,      \* the props the parent passes to the component
    elem,       \* the DOM node: layout boxes and computed margins
    style,      \* elem.style: the inline height and width
    rendered,   \* what the latest render() handed to the delegate
    status,     \* the delegate's transition status
    pending,    \* the phase callback the delegate invokes next
    last,       \* record of the latest phase callback invocation
    cycle,      \* phases invoked since the delegate started the current cycle
    preStyle    \* elem.style when the current cycle started

vars == <<given, elem, style, rendered, status, pending, last, cycle, preStyle>>

\* Largest multiple of the layout unit used for the offset extents drawn as input.
MaxExtent == 1

(***************************************************************************)
(* JavaScript values                                                       *)
(***************************************************************************)
Num(n) == [nan |-> FALSE, v |-> n]

NaN == [nan |-> TRUE, v |-> 0]

\* a + b on numbers: NaN is absorbing
JsAdd(a, b) == IF a.nan \/ b.nan THEN NaN ELSE Num(a.v + b.v)

DigitChars == <<"0", "1", "2", "3", "4", "5", "6", "7", "8", "9">>

IsDigit(c) == \E i \in 1..10 : DigitChars[i] = c

DigitVal(c) == (CHOOSE i \in 1..10 : DigitChars[i] = c) - 1

IsSpace(c) == c = " "

RECURSIVE SkipSpaces(_)
SkipSpaces(s) ==
    IF s # <<>> /\ IsSpace(Head(s)) THEN SkipSpaces(Tail(s)) ELSE s

\* the value of the longest prefix of digits of s, continuing from acc
RECURSIVE DigitsPrefix(_, _)
DigitsPrefix(s, acc) ==
    IF s # <<>> /\ IsDigit(Head(s))
    THEN DigitsPrefix(Tail(s), 10 * acc + DigitVal(Head(s)))
    ELSE acc

\* parseInt(s, 10): leading white space, an optional sign, then the longest
\* run of decimal digits; NaN when there is no digit.
parseInt(s) ==
    LET t    == SkipSpaces(s)
        neg  == t # <<>> /\ Head(t) = "-"
        sign == t # <<>> /\ Head(t) \in {"-", "+"}
        u    == IF sign THEN Tail(t) ELSE t
    IN  IF u = <<>> \/ ~IsDigit(Head(u)) THEN NaN
        ELSE Num((IF neg THEN -1 ELSE 1) * DigitsPrefix(u, 0))

RECURSIVE NatToString(_)
NatToString(n) ==
    IF n < 10 THEN <<DigitChars[n + 1]>>
    ELSE NatToString(n \div 10) \o <<DigitChars[(n % 10) + 1]>>

\* String(x) of a number, as a template literal interpolates it
NumToString(x) ==
    IF x.nan THEN <<"N", "a", "N">>
    ELSE IF x.v < 0 THEN <<"-">> \o NatToString(-x.v)
    ELSE NatToString(x.v)

\* `${x}px`
Px(x) == NumToString(x) \o <<"p", "x">>

\* a value of an inline style property: null or a string
Null == [null |-> TRUE, s |-> <<>>]

Str(s) == [null |-> FALSE, s |-> s]

\* a boolean attribute value or null
JsBool(b) == [null |-> FALSE, b |-> b]

NullAttr == [null |-> TRUE, b |-> FALSE]

\* truthiness of an optional string prop
Truthy(r) == r.defined /\ r.s # <<>>

(***************************************************************************)
(* Helpers of Collapse.js                                                  *)
(***************************************************************************)
Axes == {"height", "width"}

MARGINS ==
    [height |-> <<"marginTop", "marginBottom">>,
     width  |-> <<"marginLeft", "marginRight">>]

capitalize(string) == IF string = "height" THEN "Height" ELSE "Width"

\* `offset${capitalize(dimension)}`
OffsetKey(dimension) ==
    IF capitalize(dimension) = "Height" THEN "offsetHeight" ELSE "offsetWidth"

\* `scroll${capitalize(dimension)}`
ScrollKey(dimension) ==
    IF capitalize(dimension) = "Height" THEN "scrollHeight" ELSE "scrollWidth"

\* css(node, property): the computed value of the property, a string
css(node, property) == node[property]

getDimensionValue(dimension, node) ==
    LET value   == Num(node[OffsetKey(dimension)])
        margins == MARGINS[dimension]
    IN  JsAdd(JsAdd(value, parseInt(css(node, margins[1]))),
              parseInt(css(node, margins[2])))

(***************************************************************************)
(* Inputs: the element and the props                                       *)
(***************************************************************************)
Extents == {40 * k : k \in 0..MaxExtent}

\* computed values of the two margins of the animated side; the last three
\* pairs hold strings that are not "<integer>px"
HeightMargins ==
    { << <<"4", "p", "x">>, <<"6", "p", "x">> >>,
      << <<"0", "p", "x">>, <<"-", "8", "p", "x">> >>,
      << <<>>, <<"1", "2", "p", "x">> >>,
      << <<"2", ".", "5", "p", "x">>, <<" ", "3", "p", "x">> >>,
      << <<"1", "0", "p", "x">>, <<"a", "u", "t", "o">> >> }

WidthMargins ==
    { << <<"1", "p", "x">>, <<"2", "p", "x">> >>,
      << <<"a", "u", "t", "o">>, <<>> >> }

Elems ==
    { [offsetHeight |-> e,      scrollHeight |-> e + 15,
       offsetWidth  |-> e + 60, scrollWidth  |-> e + 90,
       marginTop    |-> hm[1],  marginBottom |-> hm[2],
       marginLeft   |-> wm[1],  marginRight  |-> wm[2]] :
      e \in Extents, hm \in HeightMargins, wm \in WidthMargins }

InternalPhases == {"enter", "entering", "entered", "exit", "exiting"}

Phases == InternalPhases \cup {"exited"}

\* which of the six on<Phase> props the caller passes
HandlerSets == {{}, Phases, {"entering", "exit"}}

Roles ==
    { [defined |-> FALSE, s |-> <<>>],
      [defined |-> TRUE,  s |-> <<>>],
      [defined |-> TRUE,  s |-> <<"t", "a", "b">>] }

GivenProps ==
    [in                : BOOLEAN,
     dimension         : {"undefined", "height", "width", "function"},
     getDimensionValue : {"undefined", "custom"},
     role              : Roles,
     handlers          : HandlerSets]

defaultProps ==
    [in |-> FALSE, dimension |-> "height", getDimensionValue |-> "default"]

\* React fills every prop that is undefined from defaultProps
WithDefaults(g) ==
    [g EXCEPT
       !.dimension = IF @ = "undefined" THEN defaultProps.dimension ELSE @,
       !.getDimensionValue =
           IF @ = "undefined" THEN defaultProps.getDimensionValue ELSE @]

\* this.props
props == WithDefaults(given)

\* a caller-supplied getDimensionValue: the offset extent without margins
customGetDimensionValue(dimension, node) == Num(node[OffsetKey(dimension)])

\* this.props.getDimensionValue(dimension, elem)
propsGetDimensionValue(dimension, node) ==
    IF props.getDimensionValue = "default"
    THEN getDimensionValue(dimension, node)
    ELSE customGetDimensionValue(dimension, node)

\* the values a call of this.props.dimension() may return
DimensionResults(p) ==
    IF p.dimension = "function" THEN Axes ELSE {p.dimension}

(***************************************************************************)
(* The component's methods.  A context c carries the inline style and the  *)
(* log of what one callback invocation did; r is what props.dimension()    *)
(* returns when the method calls it.                                       *)
(***************************************************************************)
Event(op, key, val) == [op |-> op, key |-> key, val |-> val]

Log(c, e) == [c EXCEPT !.calls = Append(@, e)]

Assign(c, dimension, v) ==
    Log([c EXCEPT !.style[dimension] = v], Event("style=", dimension, v))

\* mutant: a function-valued dimension is not called, the default axis is used
_dimensionStatic(p, r) == IF p.dimension = "function" THEN "height" ELSE p.dimension

_dimension(p, r) == IF p.dimension = "function" THEN r ELSE p.dimension

\* the trace this._dimension() leaves: one call of the prop when it is a function
Resolve(c, r) ==
    LET d == _dimension(props, r)
        c1 == IF props.dimension = "function"
              THEN Log(c, Event("props.dimension()", r, Null))
              ELSE c
    IN  [c1 EXCEPT !.axis = d]

\* mutant: the expand-time extent taken from the offset box
_getOffsetDimensionValue(node, dimension) ==
    Px(Num(node[OffsetKey(dimension)]))

_getScrollDimensionValue(node, dimension) ==
    Px(Num(node[ScrollKey(dimension)]))

triggerBrowserReflow(c, node) == Log(c, Event("read", "offsetHeight", Null))

handleEnter(c, node, r) ==
    LET dimension == _dimension(props, r)
    IN  Assign(Resolve(c, r), dimension, Str(<<"0">>))

handleEntered(c, node, r) ==
    LET dimension == _dimension(props, r)
    IN  Assign(Resolve(c, r), dimension, Null)

handleEntering(c, node, r) ==
    LET dimension == _dimension(props, r)
    IN  Assign(Resolve(c, r), dimension,
               Str(_getScrollDimensionValue(node, dimension)))

\* mutant: the layout read performed before the style is written
handleExitReflowFirst(c, node, r) ==
    LET dimension == _dimension(props, r)
        value == propsGetDimensionValue(dimension, node)
        c1 == Log(Resolve(c, r),
                  Event("getDimensionValue", dimension, Str(NumToString(value))))
        c2 == triggerBrowserReflow([c1 EXCEPT !.value = value], node)
    IN  Assign(c2, dimension, Str(Px(value)))

handleExit(c, node, r) ==
    LET dimension == _dimension(props, r)
        value == propsGetDimensionValue(dimension, node)
        c1 == Log(Resolve(c, r),
                  Event("getDimensionValue", dimension, Str(NumToString(value))))
        c2 == Assign([c1 EXCEPT !.value = value], dimension, Str(Px(value)))
    IN  triggerBrowserReflow(c2, node)

\* mutant: the collapsed style always written to the height
handleExitingHeight(c, node, r) ==
    Assign(Resolve(c, r), "height", Str(<<"0">>))

handleExiting(c, node, r) ==
    LET dimension == _dimension(props, r)
    IN  Assign(Resolve(c, r), dimension, Str(<<"0">>))

(***************************************************************************)
(* render(): the chained callbacks, the class flag and aria-expanded       *)
(***************************************************************************)
NullFn == [kind |-> "null", name |-> "null"]

\* the bound method this.handle<Phase>
thisHandler(phase) == [kind |-> "internal", name |-> phase]

\* the on<Phase> prop: the caller's function, or undefined
userHandler(p, phase) ==
    IF phase \in p.handlers THEN [kind |-> "user", name |-> phase] ELSE NullFn

\* mutant: render() forgets to chain the caller's handler
chainArgumentsNoUser(p, phase) == <<thisHandler(phase), NullFn>>

\* mutant: render() chains the caller's handler in front of the internal one
chainArgumentsUserFirst(p, phase) == <<userHandler(p, phase), thisHandler(phase)>>

\* the arguments render() passes to createChainedFunction for a phase
chainArguments(p, phase) == <<thisHandler(phase), userHandler(p, phase)>>

IsFn(f) == f.kind # "null"

\* utils/createChainedFunction: the functions that are not null, called in
\* the order given, each with the arguments of the call
createChainedFunction(funcs) == SelectSeq(funcs, IsFn)

\* mutant: aria-expanded emitted whether or not there is a role
ariaExpandedAlways(p) == JsBool(p.in)

\* aria-expanded={props.role ? props.in : null}
ariaExpanded(p) == IF Truthy(p.role) THEN JsBool(p.in) ELSE NullAttr

\* classes = { width: this._dimension() === 'width' }
classes(p, r) == [width |-> _dimension(p, r) = "width"]

render(p, r) ==
    [in           |-> p.in,
     ariaExpanded |-> ariaExpanded(p),
     classes      |-> classes(p, r),
     on           |-> [ph \in Phases |->
                         IF ph \in InternalPhases
                         THEN createChainedFunction(chainArguments(p, ph))
                         ELSE createChainedFunction(<<userHandler(p, ph)>>)]]

(***************************************************************************)
(* One invocation of a callback handed to the delegate                     *)
(***************************************************************************)
Internal(name, c, node, r) ==
    CASE name = "enter"    -> handleEnter(c, node, r)
      [] name = "entering" -> handleEntering(c, node, r)
      [] name = "entered"  -> handleEntered(c, node, r)
      [] name = "exit"     -> handleExit(c, node, r)
      [] name = "exiting"  -> handleExiting(c, node, r)

\* a call of one function of a chain with the argument arg; a caller's
\* function either returns or throws
CallFn(f, c, arg, r, throws) ==
    IF f.kind = "internal"
    THEN Internal(f.name, Log(c, Event("internal", f.name, Str(<<arg>>))), elem, r)
    ELSE [Log(c, Event("user", f.name, Str(<<arg>>))) EXCEPT !.threw = throws]

\* the chained function: every function in order; an exception ends the call
RECURSIVE CallChain(_, _, _, _, _)
CallChain(fs, c, arg, r, throws) ==
    IF fs = <<>> THEN c
    ELSE LET c1 == CallFn(Head(fs), c, arg, r, throws)
         IN  IF c1.threw THEN c1 ELSE CallChain(Tail(fs), c1, arg, r, throws)

NewContext(phase) ==
    [phase |-> phase, style |-> style, calls |-> <<>>, threw |-> FALSE,
     axis |-> "none", value |-> Num(0)]

(***************************************************************************)
(* The delegate: which callback it invokes next                            *)
(***************************************************************************)
\* after an update of the props: a cycle starts when the status disagrees
\* with the new value of in, and is announced by enter or exit
delegateOnUpdate(in, st, pend) ==
    IF in /\ st \in {"exited", "exiting"} THEN "enter"
    ELSE IF ~in /\ st \in {"entering", "entered"} THEN "exit"
    ELSE pend

\* the status after the callback of a phase returned or threw
delegateStatus(phase, st, threw) ==
    CASE phase = "enter"   -> IF threw THEN st ELSE "entering"
      [] phase = "exit"    -> IF threw THEN st ELSE "exiting"
      [] phase = "entered" -> "entered"
      [] phase = "exited"  -> "exited"
      [] OTHER             -> st

\* the callback that follows the callback of a phase
delegatePending(phase, threw) ==
    CASE threw               -> "idle"
      [] phase = "enter"     -> "entering"
      [] phase = "entering"  -> "entered"
      [] phase = "exit"      -> "exiting"
      [] phase = "exiting"   -> "exited"
      [] OTHER               -> "idle"

(***************************************************************************)
(* Actions                                                                 *)
(***************************************************************************)
Init ==
    /\ given \in GivenProps
    /\ elem \in Elems
    /\ style = [height |-> Null, width |-> Null]
    /\ \E r \in DimensionResults(props) : rendered = render(props, r)
    /\ status = IF given.in THEN "entered" ELSE "exited"
    /\ pending = "idle"
    /\ last = NewContext("none")
    /\ cycle = <<>>
    /\ preStyle = style

\* the parent flips the `in` prop; the component renders again and the
\* delegate decides whether a cycle starts.  The delegate runs enter and
\* entering (exit and exiting) back to back, so an update falls between cycles
\* or while the delegate waits for the end of the transition.
Toggle ==
    /\ pending \in {"idle", "entered", "exited"}
    /\ given' = [given EXCEPT !.in = ~@]
    /\ \E r \in DimensionResults(props) : rendered' = render(props', r)
    /\ pending' = delegateOnUpdate(given'.in, status, pending)
    /\ IF pending' \in {"enter", "exit"} /\ pending' # pending
       THEN cycle' = <<>> /\ preStyle' = style
       ELSE UNCHANGED <<cycle, preStyle>>
    /\ UNCHANGED <<elem, style, status, last>>

\* the parent renders the component again with the same props
Rerender ==
    /\ props.dimension = "function"
    /\ \E r \in DimensionResults(props) : rendered' = render(props, r)
    /\ UNCHANGED <<given, elem, style, status, pending, last, cycle, preStyle>>

\* the delegate invokes the callback it was handed for the phase
Fire(phase) ==
    /\ \E r \in DimensionResults(props),
          throws \in {t \in BOOLEAN : t => phase \in props.handlers} :
         LET c == CallChain(rendered.on[phase], NewContext(phase), "node", r, throws)
         IN  /\ style' = c.style
             /\ last' = c
             /\ status' = delegateStatus(phase, status, c.threw)
             /\ pending' = delegatePending(phase, c.threw)
    /\ cycle' = Append(cycle, phase)
    /\ UNCHANGED <<given, elem, rendered, preStyle>>

Enter ==
    /\ pending = "enter"
    /\ Fire("enter")

Entering ==
    /\ pending = "entering"
    /\ Fire("entering")

Entered ==
    /\ pending = "entered"
    /\ Fire("entered")

Exit ==
    /\ pending = "exit"
    /\ Fire("exit")

Exiting ==
    /\ pending = "exiting"
    /\ Fire("exiting")

Exited ==
    /\ pending = "exited"
    /\ Fire("exited")

Next ==
    \/ Toggle
    \/ Rerender
    \/ Enter
    \/ Entering
    \/ Entered
    \/ Exit
    \/ Exiting
    \/ Exited

Spec == Init /\ [][Next]_vars

(***************************************************************************)
(* Vocabulary of the properties                                            *)
(***************************************************************************)
EventsOf(op) == SelectSeq(last.calls, LAMBDA e : e.op = op)

\* the position of the only event of the kind in the latest invocation
IndexOf(op) == CHOOSE i \in 1..Len(last.calls) : last.calls[i].op = op

\* the latest invocation ran an internal handler
RanInternal == last.phase \in InternalPhases

\* the caller passed a handler for the phase of the latest invocation
UserGiven == last.phase \in props.handlers

\* s is an optional minus sign and at least one digit, followed by "px"
WellFormedPx(s) ==
    LET n == Len(s)
        d == IF n > 0 /\ s[1] = "-" THEN 2 ELSE 1
    IN  /\ n >= d + 2
        /\ s[n - 1] = "p" /\ s[n] = "x"
        /\ \A i \in d..(n - 2) : IsDigit(s[i])

\* s starts with an integer: a digit, or a sign and a digit
StartsWithInteger(s) ==
    \/ Len(s) >= 1 /\ IsDigit(s[1])
    \/ Len(s) >= 2 /\ s[1] \in {"-", "+"} /\ IsDigit(s[2])

\* offset extent and the two margins of the element along an axis
OffsetOf(a) == IF a = "height" THEN elem.offsetHeight ELSE elem.offsetWidth

ScrollOf(a) == IF a = "height" THEN elem.scrollHeight ELSE elem.scrollWidth

MarginBefore(a) == IF a = "height" THEN elem.marginTop ELSE elem.marginLeft

MarginAfter(a) == IF a = "height" THEN elem.marginBottom ELSE elem.marginRight

OtherAxis(a) == IF a = "height" THEN "width" ELSE "height"

\* the pixels of a margin, an absent margin counting 0
MarginOrZero(s) == IF s = <<>> THEN Num(0) ELSE parseInt(s)

Zero == Str(<<"0">>)

(***************************************************************************)
(* C1: the default getDimensionValue returns the offset extent plus the    *)
(* two margins of the axis, and a margin whose computed value is empty     *)
(* contributes 0.  Stated of the value the exit phase obtained from the    *)
(* default calculator.                                                     *)
(***************************************************************************)
C1_ExtentIsOffsetPlusMargins ==
    (last.phase = "exit" /\ props.getDimensionValue = "default") =>
        last.value = JsAdd(JsAdd(Num(OffsetOf(last.axis)),
                                 MarginOrZero(MarginBefore(last.axis))),
                           MarginOrZero(MarginAfter(last.axis)))

(***************************************************************************)
(* C2: when a margin of the axis does not start with an integer, the exit  *)
(* phase with the default calculator still writes a well-formed            *)
(* "<number>px" inline style.                                              *)
(***************************************************************************)
C2_MalformedMarginStillNumericPx ==
    ( /\ last.phase = "exit"
      /\ props.getDimensionValue = "default"
      /\ \/ ~StartsWithInteger(MarginBefore(last.axis))
         \/ ~StartsWithInteger(MarginAfter(last.axis)) ) =>
        /\ ~last.value.nan
        /\ ~style[last.axis].null
        /\ WellFormedPx(style[last.axis].s)

(***************************************************************************)
(* C3: every invocation of one of the five chained phase callbacks runs    *)
(* the internal handler first and then, in the same call and with the same *)
(* argument, the caller's handler of the same phase; when the caller       *)
(* passed none, only the internal handler runs and nothing is thrown.      *)
(***************************************************************************)
C3_InternalBeforeUser ==
    RanInternal =>
        /\ Len(EventsOf("internal")) = 1
        /\ last.calls[1] = Event("internal", last.phase, Str(<<"node">>))
        /\ UserGiven =>
             /\ Len(EventsOf("user")) = 1
             /\ last.calls[Len(last.calls)] =
                    Event("user", last.phase, last.calls[1].val)
             /\ IndexOf("style=") < IndexOf("user")
        /\ ~UserGiven => (EventsOf("user") = <<>> /\ ~last.threw)

C3_Witness ==
    /\ last.phase = "entering"
    /\ UserGiven
    /\ Len(last.calls) >= 3
    /\ last.calls[1].op = "internal"
    /\ last.calls[Len(last.calls)].op = "user"

(***************************************************************************)
(* C4: with a literal axis, the phases of an expand cycle are enter,       *)
(* entering and entered in that order with none skipped, and the inline    *)
(* style of the axis is "0" after enter, the scroll extent in pixels after *)
(* entering, and null after entered.                                       *)
(***************************************************************************)
IsPrefix(s, t) == Len(s) <= Len(t) /\ \A i \in 1..Len(s) : s[i] = t[i]

C4_ExpandCycle ==
    (props.dimension \in Axes) =>
        LET a == props.dimension
        IN  /\ (pending = "enter") => (given.in /\ cycle = <<>>)
            /\ (cycle # <<>> /\ cycle[1] = "enter") =>
                   /\ IsPrefix(cycle, <<"enter", "entering", "entered">>)
                   /\ (cycle = <<"enter">> /\ ~last.threw) => pending = "entering"
                   /\ (cycle = <<"enter", "entering">> /\ ~last.threw) =>
                          pending = "entered"
            /\ (last.phase = "enter") => style[a] = Zero
            /\ (last.phase = "entering") =>
                   /\ ~style[a].null
                   /\ WellFormedPx(style[a].s)
                   /\ Len(style[a].s) = Len(NatToString(ScrollOf(a))) + 2
                   /\ parseInt(style[a].s) = Num(ScrollOf(a))
            /\ (last.phase = "entered") => style[a] = Null

C4_Witness ==
    /\ props.dimension = "height"
    /\ cycle = <<"enter", "entering", "entered">>
    /\ elem.offsetHeight = 40
    /\ elem.marginTop = <<"4", "p", "x">>
    /\ elem.marginBottom = <<"6", "p", "x">>
    /\ style.height = Null
    /\ status = "entered"

(***************************************************************************)
(* C5: with a literal axis, a collapse cycle runs exit and then exiting;   *)
(* exit calls the configured getDimensionValue with the axis, writes its   *)
(* result suffixed "px" to the inline style of the axis and only then      *)
(* performs the layout read, which does not throw; exiting writes "0".     *)
(* For offset 40 and margins 4px and 6px the default writes "50px".        *)
(***************************************************************************)
C5_CollapseCycle ==
    (props.dimension \in Axes) =>
        LET a == props.dimension
        IN  /\ (pending = "exit") => (~given.in /\ cycle = <<>>)
            /\ (cycle # <<>> /\ cycle[1] = "exit") =>
                   /\ IsPrefix(cycle, <<"exit", "exiting", "exited">>)
                   /\ (cycle = <<"exit">> /\ ~last.threw) => pending = "exiting"
            /\ (last.phase = "exit") =>
                   /\ Len(EventsOf("getDimensionValue")) = 1
                   /\ EventsOf("getDimensionValue")[1].key = a
                   /\ last.value =
                          (IF props.getDimensionValue = "default"
                           THEN getDimensionValue(a, elem)
                           ELSE customGetDimensionValue(a, elem))
                   /\ style[a] = Str(NumToString(last.value) \o <<"p", "x">>)
                   /\ Len(EventsOf("style=")) = 1
                   /\ Len(EventsOf("read")) = 1
                   /\ IndexOf("style=") < IndexOf("read")
                   /\ ~UserGiven => ~last.threw
                   /\ ( /\ a = "height"
                        /\ props.getDimensionValue = "default"
                        /\ elem.offsetHeight = 40
                        /\ elem.marginTop = <<"4", "p", "x">>
                        /\ elem.marginBottom = <<"6", "p", "x">> ) =>
                          style.height = Str(<<"5", "0", "p", "x">>)
            /\ (last.phase = "exiting") => style[a] = Zero

C5_Witness ==
    /\ props.dimension = "height"
    /\ props.getDimensionValue = "default"
    /\ cycle = <<"exit", "exiting">>
    /\ elem.offsetHeight = 40
    /\ elem.marginTop = <<"4", "p", "x">>
    /\ elem.marginBottom = <<"6", "p", "x">>
    /\ style.height = Zero
    /\ status = "exiting"

(***************************************************************************)
(* C6: with the literal axis width the class flag `width` of the render is *)
(* true and no phase callback writes the inline height; with the literal   *)
(* axis height the flag is false and the inline width is never written.    *)
(***************************************************************************)
C6_OnlyTheAxisIsWritten ==
    (props.dimension \in Axes) =>
        LET a == props.dimension
            o == OtherAxis(a)
        IN  /\ rendered.classes.width = (a = "width")
            /\ style[o] = Null
            /\ preStyle[o] = Null
            /\ \A i \in 1..Len(last.calls) :
                   last.calls[i].op = "style=" => last.calls[i].key = a

C6_Witness ==
    /\ props.dimension = "width"
    /\ rendered.classes.width
    /\ cycle = <<"exit", "exiting">>
    /\ style.width = Zero
    /\ style.height = Null

(***************************************************************************)
(* C7 as stated: aria-expanded equals `in` whenever a role is specified    *)
(* and is null whenever no role is specified, for every render.            *)
(***************************************************************************)
C7_AriaMirrorsInWhenRoleSpecified ==
    /\ rendered.in = given.in
    /\ rendered.ariaExpanded =
           (IF given.role.defined THEN JsBool(given.in) ELSE NullAttr)

(***************************************************************************)
(* C7 amended: aria-expanded equals `in` whenever the role is a non-empty  *)
(* string, and is null when the role is absent or the empty string.        *)
(***************************************************************************)
C7_AriaMirrorsInWhenRoleNonEmpty ==
    /\ rendered.in = given.in
    /\ rendered.ariaExpanded =
           (IF given.role.defined /\ Len(given.role.s) > 0
            THEN JsBool(given.in) ELSE NullAttr)

C7_Witness ==
    /\ given.role = [defined |-> TRUE, s |-> <<"t", "a", "b">>]
    /\ given.in
    /\ status = "entering"
    /\ rendered.ariaExpanded = JsBool(TRUE)

(***************************************************************************)
(* C8: every internal phase handler resolves the axis when it runs: a      *)
(* function-valued dimension is called exactly once per invocation and the *)
(* one inline style written is that of the axis it returned in that call;  *)
(* a literal dimension is used as it is, and an unspecified one is height. *)
(***************************************************************************)
C8_AxisResolvedPerPhase ==
    RanInternal =>
        /\ Len(EventsOf("style=")) = 1
        /\ (props.dimension = "function") =>
              /\ Len(EventsOf("props.dimension()")) = 1
              /\ EventsOf("style=")[1].key = EventsOf("props.dimension()")[1].key
              /\ last.axis = EventsOf("props.dimension()")[1].key
        /\ (props.dimension # "function") =>
              /\ EventsOf("props.dimension()") = <<>>
              /\ EventsOf("style=")[1].key = given.dimension
                   \/ given.dimension = "undefined"
        /\ (given.dimension = "undefined") =>
              /\ EventsOf("style=")[1].key = "height"
              /\ last.axis = "height"

\* two phases of one cycle wrote different axes
C8_Witness ==
    /\ props.dimension = "function"
    /\ cycle = <<"enter", "entering">>
    /\ last.axis = "width"
    /\ style.height = Zero
    /\ ~style.width.null

(***************************************************************************)
(* C9: when the caller's handler of a phase throws, the chained callback   *)
(* throws to the delegate, the internal handler of that invocation has run *)
(* exactly once before it and its style write stays in place.              *)
(***************************************************************************)
C9_ThrowAfterInternal ==
    last.threw =>
        /\ UserGiven
        /\ last.calls[Len(last.calls)].op = "user"
        /\ RanInternal =>
              /\ Len(EventsOf("internal")) = 1
              /\ Len(EventsOf("style=")) = 1
              /\ IndexOf("internal") < IndexOf("user")
              /\ IndexOf("style=") < IndexOf("user")
              /\ style[last.axis] = EventsOf("style=")[1].val
        /\ (cycle # <<>> /\ cycle[Len(cycle)] = last.phase) => pending = "idle"

C9_Witness ==
    /\ last.threw
    /\ last.phase = "entering"
    /\ ~style[last.axis].null
    /\ style[last.axis] # Zero
    /\ pending = "idle"
    /\ status = "entering"

(***************************************************************************)
(* C10: with a function-valued dimension, after a complete expand cycle no *)
(* inline height or width written by the component remains (each is null   *)
(* or what it was before the cycle), and the class flag `width` of the     *)
(* latest render agrees with the axis the phase handlers mutated.          *)
(***************************************************************************)
C10_NoResidueAfterExpand ==
    (props.dimension = "function" /\ cycle = <<"enter", "entering", "entered">>) =>
        /\ \A a \in Axes : style[a] = Null \/ style[a] = preStyle[a]
        /\ rendered.classes.width = (last.axis = "width")

====
